---- MODULE Spec2Model ----
(***************************************************************************)
(* Referral-graph scripts of tree_system: the chain resolver of            *)
(* build_resolved_referrals.py and the duplicate / missing-sponsor checks  *)
(* of check_csv_duplicates.py, find_missing_sponsors.py and                *)
(* analyze_import_issue.py.                                                *)
(*                                                                         *)
(* A Python str is a sequence of one-character strings, so that strip()    *)
(* and lower() are computed and not assumed.                               *)
(***************************************************************************)
EXTENDS Integers, Sequences, FiniteSets, TLC

\* ------------------------------------------------------------------ bounds
\* distinct wallets the members CSV may hold
MaxMembers == 3
\* rows of "wo address.csv"
MaxUsers == 2
\* rows of the members CSV when the rows read are recorded (SpecLoad)
MaxLogged == 2
\* rows of csv/WLGC1.0.csv
MaxCsvRows == 2

\* ----------------------------------------------------------------- strings
EMPTY == <<>>

IsSpace(c) == c = " "

LowerChar(c) ==
    CASE c = "A" -> "a"
      [] c = "B" -> "b"
      [] c = "R" -> "r"
      [] OTHER -> c

\* str.lower()
lower(s) == [k \in 1..Len(s) |-> LowerChar(s[k])]

RECURSIVE lstrip(_)
lstrip(s) ==
    IF s = EMPTY THEN s
    ELSE IF IsSpace(Head(s)) THEN lstrip(Tail(s)) ELSE s

RECURSIVE rstrip(_)
rstrip(s) ==
    IF s = EMPTY THEN s
    ELSE IF IsSpace(s[Len(s)]) THEN rstrip(SubSeq(s, 1, Len(s) - 1)) ELSE s

\* str.strip()
strip(s) == rstrip(lstrip(s))

\* dict.get(key, "")
Get(d, key) == IF key \in DOMAIN d THEN d[key] ELSE EMPTY

\* d[key] = value
Put(d, key, value) == [k \in DOMAIN d \cup {key} |-> IF k = key THEN value ELSE d[k]]

\* ------------------------------------------------------------------ inputs
FALLBACK_ROOT == <<"R">>

\* wallet strings that occur in the two CSV files of build_resolved_referrals.py
Wallets == {<<"a">>, <<"A">>, <<"b">>, FALLBACK_ROOT}

\* a CSV cell: absent/empty, blank, a wallet, or a wallet with surrounding blanks
Cells(ids) == {EMPTY, <<" ">>} \cup ids \cup {<<" ", "a", " ">>}

WalletCells == Cells(Wallets)

\* cells of the USER BEP20 ADDRESS column of INPUT_CSV, whose rows are kept
UserCells == WalletCells \ {<<" ">>}

\* user names that occur in csv/WLGC1.0.csv
UserNames == {<<"a">>, <<"A">>, <<"b">>}

UserNameCells == Cells(UserNames)

\* the three scripts that read csv/WLGC1.0.csv
Scripts == {"check_csv_duplicates", "find_missing_sponsors", "analyze_import_issue"}

\* ------------------------------------------------------------------- state
VARIABLES
    pc,              \* position in main() of build_resolved_referrals.py
    member_refs,     \* dict wallet_address -> referrer_wallet
    user_addresses,  \* set of USER BEP20 ADDRESS
    input_csv,       \* rows (the USER BEP20 ADDRESS cell) of INPUT_CSV
    row_no,          \* rows of INPUT_CSV consumed by the loop of main()
    user,            \* user_wallet / current of the running resolve_referrer call
    ref,             \* ref of the running call
    seen,            \* seen of the running call
    climbs,          \* iterations of "while True" entered by the running call
    resolved,        \* last value returned by resolve_referrer
    output_csv,      \* rows written to OUTPUT_CSV
    members_csv,     \* rows of MEMBERS_CSV read so far (recorded under SpecLoad only)
    script,          \* which script of Scripts runs ("none": none of them)
    apc,             \* position in that script
    csv_file,        \* rows (User Name, Referrer_User Name cells) of CSV_FILE
    scan,            \* rows / members consumed by the script's checking loop
    wallets,         \* check_csv_duplicates: list wallets
    referrers,       \* check_csv_duplicates: list referrers
    wallet_to_row,   \* check_csv_duplicates: dict wallet -> list of row numbers
    duplicates,      \* check_csv_duplicates: dict wallet -> count (count > 1)
    wallet_set,      \* check_csv_duplicates: set(wallets)
    missing,         \* check_csv_duplicates: list missing
    members,         \* find_missing_sponsors / analyze_import_issue: list members
    all_wallets,     \* find_missing_sponsors: set all_wallets
    missing_sponsors, \* find_missing_sponsors / analyze_import_issue: list
    cyc_pc,          \* position in the cycle check of the audit
    self_is_root,    \* audit argument selfIsRoot
    referral_map,    \* ReferralMap: canonical identifier -> (identifier, referrer)
    todo,            \* identifiers of the map whose walk has not started
    walk,            \* identifiers visited in the running walk (canonical)
    findings         \* CyclicChain findings emitted so far

rvars == <<pc, member_refs, user_addresses, input_csv, row_no, user, ref, seen,
           climbs, resolved, output_csv, members_csv>>

avars == <<script, apc, csv_file, scan, wallets, referrers, wallet_to_row,
           duplicates, wallet_set, missing, members, all_wallets, missing_sponsors>>

cvars == <<cyc_pc, self_is_root, referral_map, todo, walk, findings>>

vars == <<rvars, avars, cvars>>

\* ------------------------------------------- build_resolved_referrals.py
\* load_member_row keeping the first referrer stored for a wallet
load_member_row_first_wins(mapping, wallet_cell, ref_cell) ==
    LET wallet == strip(wallet_cell)
        r == strip(ref_cell)
    IN IF wallet = EMPTY \/ wallet \in DOMAIN mapping THEN mapping
       ELSE Put(mapping, wallet, r)

\* one row of load_member_referrers: returns the mapping after the row
load_member_row(mapping, wallet_cell, ref_cell) ==
    LET wallet == strip(wallet_cell)
        r == strip(ref_cell)
    IN IF wallet = EMPTY THEN mapping ELSE Put(mapping, wallet, r)

\* one row of load_user_addresses: returns the set after the row
load_user_row(addresses, user_cell) ==
    LET u == strip(user_cell)
    IN IF u # EMPTY THEN addresses \cup {u} ELSE addresses

\* enter_resolve with seen kept from the previous call (a module-level set)
enter_resolve_shared_seen(user_wallet, m) ==
    [seen |-> seen, current |-> user_wallet, ref |-> Get(m, user_wallet)]

\* enter_resolve starting the climb at the user instead of the user's referrer
enter_resolve_from_user(user_wallet, m) ==
    [seen |-> {}, current |-> user_wallet, ref |-> user_wallet]

\* entry of resolve_referrer: the locals before the loop
enter_resolve(user_wallet, m) ==
    [seen |-> {}, current |-> user_wallet, ref |-> Get(m, user_wallet)]

\* loop_body without the "ref == FALLBACK_ROOT" test
loop_body_no_root_test(r, s, m, u) ==
    IF r = EMPTY THEN [ret |-> TRUE, value |-> FALLBACK_ROOT, ref |-> r, seen |-> s]
    ELSE IF r \in s
        THEN [ret |-> TRUE, value |-> FALLBACK_ROOT, ref |-> r, seen |-> s]
    ELSE IF r \in u
        THEN [ret |-> TRUE, value |-> r, ref |-> r, seen |-> s \cup {r}]
    ELSE LET next_ref == Get(m, r)
         IN IF next_ref = EMPTY
            THEN [ret |-> TRUE, value |-> FALLBACK_ROOT, ref |-> r, seen |-> s \cup {r}]
            ELSE [ret |-> FALSE, value |-> EMPTY, ref |-> next_ref, seen |-> s \cup {r}]

\* loop_body without the "ref in seen" loop protection
loop_body_no_loop_protection(r, s, m, u) ==
    IF r = EMPTY THEN [ret |-> TRUE, value |-> FALLBACK_ROOT, ref |-> r, seen |-> s]
    ELSE IF r = FALLBACK_ROOT
        THEN [ret |-> TRUE, value |-> FALLBACK_ROOT, ref |-> r, seen |-> s]
    ELSE IF r \in u
        THEN [ret |-> TRUE, value |-> r, ref |-> r, seen |-> s \cup {r}]
    ELSE LET next_ref == Get(m, r)
         IN IF next_ref = EMPTY
            THEN [ret |-> TRUE, value |-> FALLBACK_ROOT, ref |-> r, seen |-> s \cup {r}]
            ELSE [ret |-> FALSE, value |-> EMPTY, ref |-> next_ref, seen |-> s \cup {r}]

\* one iteration of "while True" of resolve_referrer
loop_body(r, s, m, u) ==
    IF r = EMPTY THEN [ret |-> TRUE, value |-> FALLBACK_ROOT, ref |-> r, seen |-> s]
    ELSE IF r = FALLBACK_ROOT
        THEN [ret |-> TRUE, value |-> FALLBACK_ROOT, ref |-> r, seen |-> s]
    ELSE IF r \in s
        THEN [ret |-> TRUE, value |-> FALLBACK_ROOT, ref |-> r, seen |-> s]
    ELSE IF r \in u
        THEN [ret |-> TRUE, value |-> r, ref |-> r, seen |-> s \cup {r}]
    ELSE LET next_ref == Get(m, r)
         IN IF next_ref = EMPTY
            THEN [ret |-> TRUE, value |-> FALLBACK_ROOT, ref |-> r, seen |-> s \cup {r}]
            ELSE [ret |-> FALSE, value |-> EMPTY, ref |-> next_ref, seen |-> s \cup {r}]

\* the loop run to its return, from locals (r, s)
RECURSIVE run_loop(_, _, _, _)
run_loop(r, s, m, u) ==
    LET b == loop_body(r, s, m, u)
    IN IF b.ret THEN b.value ELSE run_loop(b.ref, b.seen, m, u)

\* resolve_referrer as a function of its arguments
resolve_referrer(user_wallet, m, u) == run_loop(Get(m, user_wallet), {}, m, u)

\* no script of Scripts runs
AuditIdle ==
    /\ script = "none"
    /\ apc = "idle"
    /\ csv_file = <<>>
    /\ scan = 0
    /\ wallets = <<>>
    /\ referrers = <<>>
    /\ wallet_to_row = <<>>
    /\ duplicates = <<>>
    /\ wallet_set = {}
    /\ missing = <<>>
    /\ members = <<>>
    /\ all_wallets = {}
    /\ missing_sponsors = <<>>

\* no cycle check runs
CycleIdle ==
    /\ cyc_pc = "idle"
    /\ self_is_root = FALSE
    /\ referral_map = <<>>
    /\ todo = {}
    /\ walk = <<>>
    /\ findings = <<>>

Init ==
    /\ AuditIdle
    /\ CycleIdle
    /\ pc = "load_members"
    /\ member_refs = <<>>
    /\ user_addresses = {}
    /\ input_csv = <<>>
    /\ row_no = 0
    /\ user = EMPTY
    /\ ref = EMPTY
    /\ seen = {}
    /\ climbs = 0
    /\ resolved = EMPTY
    /\ output_csv = <<>>
    /\ members_csv = <<>>

\* load_member_referrers: the reader yields one more row
LoadMemberRow ==
    /\ pc = "load_members"
    /\ \E wallet_cell \in WalletCells, ref_cell \in WalletCells :
        /\ member_refs' = load_member_row(member_refs, wallet_cell, ref_cell)
        /\ Cardinality(DOMAIN member_refs') <= MaxMembers
    /\ UNCHANGED <<pc, user_addresses, input_csv, row_no, user, ref, seen,
                   climbs, resolved, output_csv, members_csv, avars, cvars>>

\* load_member_referrers returns; main calls load_user_addresses
EndMembers ==
    /\ pc = "load_members"
    /\ pc' = "load_users"
    /\ UNCHANGED <<member_refs, user_addresses, input_csv, row_no, user, ref,
                   seen, climbs, resolved, output_csv, members_csv, avars, cvars>>

\* load_user_addresses: the reader yields one more row of INPUT_CSV
LoadUserRow ==
    /\ pc = "load_users"
    /\ Len(input_csv) < MaxUsers
    /\ \E user_cell \in UserCells :
        /\ input_csv' = Append(input_csv, user_cell)
        /\ user_addresses' = load_user_row(user_addresses, user_cell)
    /\ UNCHANGED <<pc, member_refs, row_no, user, ref, seen, climbs, resolved,
                   output_csv, members_csv, avars, cvars>>

\* load_user_addresses returns; main opens INPUT_CSV again
EndUsers ==
    /\ pc = "load_users"
    /\ pc' = "main"
    /\ UNCHANGED <<member_refs, user_addresses, input_csv, row_no, user, ref,
                   seen, climbs, resolved, output_csv, members_csv, avars, cvars>>

\* "for row in reader" of main: a row with an empty user is skipped
MainSkipRow ==
    /\ pc = "main"
    /\ row_no < Len(input_csv)
    /\ strip(input_csv[row_no + 1]) = EMPTY
    /\ row_no' = row_no + 1
    /\ UNCHANGED <<pc, member_refs, user_addresses, input_csv, user, ref, seen,
                   climbs, resolved, output_csv, members_csv, avars, cvars>>

\* "for row in reader" of main: resolve_referrer is called for the row
MainCallResolve ==
    /\ pc = "main"
    /\ row_no < Len(input_csv)
    /\ strip(input_csv[row_no + 1]) # EMPTY
    /\ LET e == enter_resolve(strip(input_csv[row_no + 1]), member_refs)
       IN /\ user' = e.current
          /\ ref' = e.ref
          /\ seen' = e.seen
    /\ climbs' = 0
    /\ row_no' = row_no + 1
    /\ pc' = "resolve"
    /\ UNCHANGED <<member_refs, user_addresses, input_csv, resolved, output_csv, members_csv, avars, cvars>>

\* an iteration of the loop that climbs to the next referrer
ResolveClimb ==
    /\ pc = "resolve"
    /\ LET b == loop_body(ref, seen, member_refs, user_addresses)
       IN /\ ~b.ret
          /\ ref' = b.ref
          /\ seen' = b.seen
    /\ climbs' = climbs + 1
    /\ UNCHANGED <<pc, member_refs, user_addresses, input_csv, row_no, user,
                   resolved, output_csv, members_csv, avars, cvars>>

\* an iteration of the loop that returns; main writes the output row
ResolveReturn ==
    /\ pc = "resolve"
    /\ LET b == loop_body(ref, seen, member_refs, user_addresses)
       IN /\ b.ret
          /\ ref' = b.ref
          /\ seen' = b.seen
          /\ resolved' = b.value
          /\ output_csv' = Append(output_csv, [user |-> user, referal |-> b.value])
    /\ climbs' = climbs + 1
    /\ pc' = "main"
    /\ UNCHANGED <<member_refs, user_addresses, input_csv, row_no, user, members_csv,
                   avars, cvars>>

\* the reader of main is exhausted
MainDone ==
    /\ pc = "main"
    /\ row_no = Len(input_csv)
    /\ pc' = "done"
    /\ UNCHANGED <<member_refs, user_addresses, input_csv, row_no, user, ref,
                   seen, climbs, resolved, output_csv, members_csv, avars, cvars>>

\* load_member_referrers: the reader yields one more row, which is recorded
LoadMemberRowLogged ==
    /\ pc = "load_members"
    /\ Len(members_csv) < MaxLogged
    /\ \E wallet_cell \in WalletCells, ref_cell \in WalletCells :
        /\ member_refs' = load_member_row(member_refs, wallet_cell, ref_cell)
        /\ members_csv' = Append(members_csv,
                                 [wallet_address |-> wallet_cell,
                                  referrer_wallet |-> ref_cell])
    /\ UNCHANGED <<pc, user_addresses, input_csv, row_no, user, ref, seen,
                   climbs, resolved, output_csv, avars, cvars>>

Next ==
    \/ LoadMemberRow
    \/ EndMembers
    \/ LoadUserRow
    \/ EndUsers
    \/ MainSkipRow
    \/ MainCallResolve
    \/ ResolveClimb
    \/ ResolveReturn
    \/ MainDone

Spec == Init /\ [][Next]_vars

\* load_member_referrers alone, with the rows it read recorded
NextLoad ==
    \/ LoadMemberRowLogged
    \/ EndMembers

SpecLoad == Init /\ [][NextLoad]_vars

\* ------------------------------------------------- scripts on CSV_FILE
\* number of occurrences of x in list l (collections.Counter)
Count(l, x) == Cardinality({n \in 1..Len(l) : l[n] = x})

\* set(l)
SetOf(l) == {l[n] : n \in 1..Len(l)}

\* d[key].append(value), d[key] = [] first when key is new
AppendAt(d, key, value) == Put(d, key, Append(IF key \in DOMAIN d THEN d[key] ELSE <<>>, value))

\* ccd_is_missing with the self-referring exemption compared case-folded
ccd_is_missing_folded_exemption(user_name, referrer_name, wset) ==
    /\ referrer_name # EMPTY
    /\ lower(referrer_name) # lower(user_name)
    /\ referrer_name \notin wset

\* check_csv_duplicates.py: the test that appends a row to missing
ccd_is_missing(user_name, referrer_name, wset) ==
    /\ referrer_name # EMPTY
    /\ referrer_name # user_name
    /\ referrer_name \notin wset

\* find_missing_sponsors.py: the test that appends a member to missing_sponsors
fms_is_missing(member, all_w) ==
    /\ member.referrer # EMPTY
    /\ lower(member.referrer) \notin all_w

\* analyze_import_issue.py: the test that appends a member to missing_sponsors
aii_is_missing(m, ms) ==
    /\ m.referrer # EMPTY
    /\ ~ \E n \in 1..Len(ms) : lower(ms[n].wallet) = lower(m.referrer)

\* one of the three scripts starts on CSV_FILE
InitAudit ==
    /\ pc = "idle"
    /\ member_refs = <<>>
    /\ user_addresses = {}
    /\ input_csv = <<>>
    /\ row_no = 0
    /\ user = EMPTY
    /\ ref = EMPTY
    /\ seen = {}
    /\ climbs = 0
    /\ resolved = EMPTY
    /\ output_csv = <<>>
    /\ members_csv = <<>>
    /\ CycleIdle
    /\ script \in Scripts
    /\ apc = "read"
    /\ csv_file = <<>>
    /\ scan = 0
    /\ wallets = <<>>
    /\ referrers = <<>>
    /\ wallet_to_row = <<>>
    /\ duplicates = <<>>
    /\ wallet_set = {}
    /\ missing = <<>>
    /\ members = <<>>
    /\ all_wallets = {}
    /\ missing_sponsors = <<>>

\* check_csv_duplicates.py, first "for row_num, row in enumerate(reader, start=2)"
CcdReadRow ==
    /\ script = "check_csv_duplicates"
    /\ apc = "read"
    /\ Len(csv_file) < MaxCsvRows
    /\ \E user_cell \in UserNameCells, ref_cell \in UserNameCells :
        LET row_num == Len(csv_file) + 2
            user_name == strip(user_cell)
            referrer_name == strip(ref_cell)
        IN /\ csv_file' = Append(csv_file, [user_name |-> user_cell,
                                             referrer_name |-> ref_cell])
           /\ wallets' = IF user_name # EMPTY THEN Append(wallets, user_name)
                         ELSE wallets
           /\ wallet_to_row' = IF user_name # EMPTY
                               THEN AppendAt(wallet_to_row, user_name, row_num)
                               ELSE wallet_to_row
           /\ referrers' = IF referrer_name # EMPTY
                           THEN Append(referrers, referrer_name)
                           ELSE referrers
    /\ UNCHANGED <<script, apc, scan, duplicates, wallet_set, missing, members,
                   all_wallets, missing_sponsors, rvars, cvars>>

\* check_csv_duplicates.py: the reader is exhausted; duplicates and wallet_set
CcdFindDuplicates ==
    /\ script = "check_csv_duplicates"
    /\ apc = "read"
    /\ duplicates' = [w \in {x \in SetOf(wallets) : Count(wallets, x) > 1} |->
                        Count(wallets, w)]
    /\ wallet_set' = SetOf(wallets)
    /\ apc' = "check"
    /\ UNCHANGED <<script, csv_file, scan, wallets, referrers, wallet_to_row,
                   missing, members, all_wallets, missing_sponsors, rvars, cvars>>

\* check_csv_duplicates.py, second loop over the rows of CSV_FILE
CcdCheckRow ==
    /\ script = "check_csv_duplicates"
    /\ apc = "check"
    /\ scan < Len(csv_file)
    /\ LET row_num == scan + 2
           user_name == strip(csv_file[scan + 1].user_name)
           referrer_name == strip(csv_file[scan + 1].referrer_name)
       IN missing' = IF ccd_is_missing(user_name, referrer_name, wallet_set)
                     THEN Append(missing, [row |-> row_num, user |-> user_name,
                                           referrer |-> referrer_name])
                     ELSE missing
    /\ scan' = scan + 1
    /\ UNCHANGED <<script, apc, csv_file, wallets, referrers, wallet_to_row,
                   duplicates, wallet_set, members, all_wallets, missing_sponsors,
                   rvars, cvars>>

\* find_missing_sponsors.py, "for row_num, row in enumerate(reader, start=2)"
FmsReadRow ==
    /\ script = "find_missing_sponsors"
    /\ apc = "read"
    /\ Len(csv_file) < MaxCsvRows
    /\ \E user_cell \in UserNameCells, ref_cell \in UserNameCells :
        LET row_num == Len(csv_file) + 2
            user_name == strip(user_cell)
            referrer_name == strip(ref_cell)
        IN /\ csv_file' = Append(csv_file, [user_name |-> user_cell,
                                             referrer_name |-> ref_cell])
           /\ all_wallets' = IF user_name # EMPTY
                             THEN all_wallets \cup {lower(user_name)}
                             ELSE all_wallets
           /\ members' = IF user_name # EMPTY
                         THEN Append(members, [row |-> row_num, wallet |-> user_name,
                                               referrer |-> referrer_name])
                         ELSE members
    /\ UNCHANGED <<script, apc, scan, wallets, referrers, wallet_to_row,
                   duplicates, wallet_set, missing, missing_sponsors, rvars, cvars>>

\* analyze_import_issue.py, "for row_num, row in enumerate(reader, start=2)"
AiiReadRow ==
    /\ script = "analyze_import_issue"
    /\ apc = "read"
    /\ Len(csv_file) < MaxCsvRows
    /\ \E user_cell \in UserNameCells, ref_cell \in UserNameCells :
        LET row_num == Len(csv_file) + 2
            user_name == strip(user_cell)
            referrer_name == strip(ref_cell)
        IN /\ csv_file' = Append(csv_file, [user_name |-> user_cell,
                                             referrer_name |-> ref_cell])
           /\ members' = Append(members, [row |-> row_num, wallet |-> user_name,
                                          referrer |-> referrer_name])
    /\ UNCHANGED <<script, apc, scan, wallets, referrers, wallet_to_row,
                   duplicates, wallet_set, missing, all_wallets, missing_sponsors,
                   rvars, cvars>>

\* find_missing_sponsors.py / analyze_import_issue.py: the reader is exhausted
MembersRead ==
    /\ script \in {"find_missing_sponsors", "analyze_import_issue"}
    /\ apc = "read"
    /\ apc' = "check"
    /\ UNCHANGED <<script, csv_file, scan, wallets, referrers, wallet_to_row,
                   duplicates, wallet_set, missing, members, all_wallets,
                   missing_sponsors, rvars, cvars>>

\* find_missing_sponsors.py, "for member in members"
FmsCheckMember ==
    /\ script = "find_missing_sponsors"
    /\ apc = "check"
    /\ scan < Len(members)
    /\ LET member == members[scan + 1]
       IN missing_sponsors' = IF fms_is_missing(member, all_wallets)
                              THEN Append(missing_sponsors, member)
                              ELSE missing_sponsors
    /\ scan' = scan + 1
    /\ UNCHANGED <<script, apc, csv_file, wallets, referrers, wallet_to_row,
                   duplicates, wallet_set, missing, members, all_wallets, rvars, cvars>>

\* analyze_import_issue.py, "for m in members" of the summary
AiiCheckMember ==
    /\ script = "analyze_import_issue"
    /\ apc = "check"
    /\ scan < Len(members)
    /\ LET m == members[scan + 1]
       IN missing_sponsors' = IF aii_is_missing(m, members)
                              THEN Append(missing_sponsors, m)
                              ELSE missing_sponsors
    /\ scan' = scan + 1
    /\ UNCHANGED <<script, apc, csv_file, wallets, referrers, wallet_to_row,
                   duplicates, wallet_set, missing, members, all_wallets, rvars, cvars>>

\* the checking loop of the script is exhausted; the summary is printed
AuditDone ==
    /\ script \in Scripts
    /\ apc = "check"
    /\ scan = (IF script = "check_csv_duplicates" THEN Len(csv_file) ELSE Len(members))
    /\ apc' = "done"
    /\ UNCHANGED <<script, csv_file, scan, wallets, referrers, wallet_to_row,
                   duplicates, wallet_set, missing, members, all_wallets,
                   missing_sponsors, rvars, cvars>>

NextAudit ==
    \/ CcdReadRow
    \/ CcdFindDuplicates
    \/ CcdCheckRow
    \/ FmsReadRow
    \/ AiiReadRow
    \/ MembersRead
    \/ FmsCheckMember
    \/ AiiCheckMember
    \/ AuditDone

SpecAudit == InitAudit /\ [][NextAudit]_vars

\* ------------------------------------------- cycle check of the audit
\* identifiers of the records the cycle check is run on
NodeNames == {<<"a">>, <<"A">>, <<"b">>, <<"c">>}

NodeCells == Cells(NodeNames)

\* Referral Map Builder, one record: the first record of a canonical key stays
build_record(map, id_cell, ref_cell) ==
    LET identifier == strip(id_cell)
        key == lower(identifier)
    IN IF identifier = EMPTY \/ key \in DOMAIN map THEN map
       ELSE Put(map, key, [identifier |-> identifier, referrer |-> strip(ref_cell)])

\* the walk's next node from node cur: EMPTY when the walk terminates there
\* (empty referrer, unknown referrer, or self-root)
next_node(map, is_root, cur) ==
    LET r == lower(map[cur].referrer)
    IN IF r = EMPTY \/ r \notin DOMAIN map \/ (is_root /\ r = cur) THEN EMPTY ELSE r

\* the part of the walk w from the first occurrence of node r to its end
cycle_from(w, r) ==
    LET first == CHOOSE h \in 1..Len(w) : w[h] = r /\ \A k \in 1..(h - 1) : w[k] # r
    IN SubSeq(w, first, Len(w))

\* report without the dedupe by member set
report_cycle_no_dedupe(fs, start, cycle) ==
    Append(fs, [startIdentifier |-> start, cycleMembers |-> cycle])

\* the findings after a walk from start closed the cycle: each distinct member
\* set is reported once
report_cycle(fs, start, cycle) ==
    IF \E n \in 1..Len(fs) : SetOf(fs[n].cycleMembers) = SetOf(cycle) THEN fs
    ELSE Append(fs, [startIdentifier |-> start, cycleMembers |-> cycle])

InitCycle ==
    /\ pc = "idle"
    /\ member_refs = <<>>
    /\ user_addresses = {}
    /\ input_csv = <<>>
    /\ row_no = 0
    /\ user = EMPTY
    /\ ref = EMPTY
    /\ seen = {}
    /\ climbs = 0
    /\ resolved = EMPTY
    /\ output_csv = <<>>
    /\ members_csv = <<>>
    /\ AuditIdle
    /\ cyc_pc = "build"
    /\ self_is_root \in BOOLEAN
    /\ referral_map = <<>>
    /\ todo = {}
    /\ walk = <<>>
    /\ findings = <<>>

\* build consumes one more record
CycBuildRecord ==
    /\ cyc_pc = "build"
    /\ \E id_cell \in NodeCells, ref_cell \in NodeCells :
        referral_map' = build_record(referral_map, id_cell, ref_cell)
    /\ UNCHANGED <<cyc_pc, self_is_root, todo, walk, findings, rvars, avars>>

\* build returns; audit starts the cycle check over every identifier of the map
CycStartAudit ==
    /\ cyc_pc = "build"
    /\ cyc_pc' = "audit"
    /\ todo' = DOMAIN referral_map
    /\ UNCHANGED <<self_is_root, referral_map, walk, findings, rvars, avars>>

\* the walk of the next identifier starts (the map's iteration order is free)
CycStartWalk ==
    /\ cyc_pc = "audit"
    /\ \E start \in todo :
        /\ todo' = todo \ {start}
        /\ walk' = <<start>>
    /\ cyc_pc' = "walk"
    /\ UNCHANGED <<self_is_root, referral_map, findings, rvars, avars>>

\* the walk moves from its current identifier to that identifier's referrer
CycWalkOn ==
    /\ cyc_pc = "walk"
    /\ LET r == next_node(referral_map, self_is_root, walk[Len(walk)])
       IN /\ r # EMPTY
          /\ \A k \in 1..Len(walk) : walk[k] # r
          /\ walk' = Append(walk, r)
    /\ UNCHANGED <<cyc_pc, self_is_root, referral_map, todo, findings, rvars, avars>>

\* the walk revisits an identifier of this walk: CyclicChain is emitted
CycWalkRevisit ==
    /\ cyc_pc = "walk"
    /\ LET r == next_node(referral_map, self_is_root, walk[Len(walk)])
       IN /\ r # EMPTY
          /\ \E k \in 1..Len(walk) : walk[k] = r
          /\ findings' = report_cycle(findings, walk[1], cycle_from(walk, r))
    /\ walk' = <<>>
    /\ cyc_pc' = "audit"
    /\ UNCHANGED <<self_is_root, referral_map, todo, rvars, avars>>

\* the walk terminates: empty referrer, unknown referrer or self-root
CycWalkEnd ==
    /\ cyc_pc = "walk"
    /\ next_node(referral_map, self_is_root, walk[Len(walk)]) = EMPTY
    /\ walk' = <<>>
    /\ cyc_pc' = "audit"
    /\ UNCHANGED <<self_is_root, referral_map, todo, findings, rvars, avars>>

\* every identifier of the map has been walked
CycDone ==
    /\ cyc_pc = "audit"
    /\ todo = {}
    /\ cyc_pc' = "done"
    /\ UNCHANGED <<self_is_root, referral_map, todo, walk, findings, rvars, avars>>

NextCycle ==
    \/ CycBuildRecord
    \/ CycStartAudit
    \/ CycStartWalk
    \/ CycWalkOn
    \/ CycWalkRevisit
    \/ CycWalkEnd
    \/ CycDone

SpecCycle == InitCycle /\ [][NextCycle]_vars

\* ------------------------------------------------------------------ claims
\* the k-th element of the referrer chain of start (start itself for k = 0)
RECURSIVE Ancestor(_, _, _)
Ancestor(m, start, k) ==
    IF k = 0 THEN start ELSE Get(m, Ancestor(m, start, k - 1))

\* the referrer chain of start: referrer(start), referrer(referrer(start)), ...
\* as far as its elements can be distinct and non-empty
ChainOf(m, start) ==
    [k \in 1..(Cardinality(DOMAIN m) + 1) |-> Ancestor(m, start, k)]

\* no element of chain up to and including the k-th is empty, the fallback or
\* a repeat
ChainClean(chain, k) ==
    \A j \in 1..k :
        /\ chain[j] # EMPTY
        /\ chain[j] # FALLBACK_ROOT
        /\ \A h \in 1..(j - 1) : chain[h] # chain[j]

Least(S) == CHOOSE k \in S : \A j \in S : k <= j

\* what C1 says resolve_referrer(start) returns
FirstQualifying(m, u, start) ==
    LET chain == ChainOf(m, start)
        hits == {k \in 1..Len(chain) : chain[k] \in u}
    IN IF hits = {} THEN FALLBACK_ROOT
       ELSE IF ChainClean(chain, Least(hits)) THEN chain[Least(hits)]
       ELSE FALLBACK_ROOT

\* C1: every value resolve_referrer returned is the first cohort member of the
\* start's referrer chain when the chain up to it holds no empty element, no
\* fallback and no repeat, and the fallback in every other case; it is never
\* the empty string.
C1_ResolveFirstQualifying ==
    \A n \in 1..Len(output_csv) :
        /\ output_csv[n].referal =
               FirstQualifying(member_refs, user_addresses, output_csv[n].user)
        /\ output_csv[n].referal # EMPTY

\* a call climbed over a non-qualifying referrer and returned the second ancestor
C1_Witness ==
    \E n \in 1..Len(output_csv) :
        LET r == output_csv[n]
        IN /\ Ancestor(member_refs, r.user, 1) \notin user_addresses
           /\ Ancestor(member_refs, r.user, 2) \in user_addresses
           /\ r.referal = Ancestor(member_refs, r.user, 2)
           /\ r.referal # FALLBACK_ROOT

\* C2: the loop of resolve_referrer returns after at most (number of wallets
\* in the map) + 1 iterations: at the head of every iteration seen holds one
\* distinct map wallet per iteration made so far.
C2_BoundedClimbs ==
    /\ climbs <= Cardinality(DOMAIN member_refs) + 1
    /\ pc = "resolve" =>
        /\ Cardinality(seen) = climbs
        /\ seen \subseteq DOMAIN member_refs
        /\ climbs <= Cardinality(DOMAIN member_refs)

\* a call on a referral cycle returned through the loop protection
C2_Witness ==
    /\ pc = "main"
    /\ climbs = 3
    /\ ref \in seen
    /\ ref \notin user_addresses
    /\ resolved = FALLBACK_ROOT

\* the data set with every identifier case-folded
FoldSet(u) == {lower(x) : x \in u}

FoldMap(m) ==
    [k \in FoldSet(DOMAIN m) |-> lower(m[CHOOSE x \in DOMAIN m : lower(x) = k])]

\* wallets that differ only in case carry referrers that differ only in case
FoldsToMap(m) ==
    \A x, y \in DOMAIN m : lower(x) = lower(y) => lower(m[x]) = lower(m[y])

\* C3 (as claimed): resolution compares case-folded forms, so the value
\* returned for a row is, up to letter case, the value returned on the same
\* data set with every identifier case-folded.
C3_CaseInsensitiveResolve ==
    \A n \in 1..Len(output_csv) :
        FoldsToMap(member_refs) =>
            lower(output_csv[n].referal) =
                lower(resolve_referrer(lower(output_csv[n].user),
                                       FoldMap(member_refs),
                                       FoldSet(user_addresses)))

\* rows of the members CSV read so far that carry wallet w
RowsOf(w) == {n \in 1..Len(members_csv) : strip(members_csv[n].wallet_address) = w}

Greatest(S) == CHOOSE k \in S : \A j \in S : j <= k

LoggedWallets == {strip(members_csv[n].wallet_address) : n \in 1..Len(members_csv)}

\* C4 (as claimed): the stored referrer of a wallet is the referrer of the
\* FIRST record that carries the wallet.
C4_FirstRecordWins ==
    \A w \in DOMAIN member_refs :
        RowsOf(w) # {} /\
        member_refs[w] = strip(members_csv[Least(RowsOf(w))].referrer_wallet)

\* C4 (amended): the map holds exactly the non-empty trimmed wallets read, each
\* with the referrer of the LAST record that carries that exact wallet string.
C4_LastRecordWins ==
    /\ DOMAIN member_refs = LoggedWallets \ {EMPTY}
    /\ \A w \in DOMAIN member_refs :
        member_refs[w] = strip(members_csv[Greatest(RowsOf(w))].referrer_wallet)

\* two records carried one wallet with different referrers
C4_Witness ==
    \E w \in DOMAIN member_refs :
        /\ Cardinality(RowsOf(w)) >= 2
        /\ strip(members_csv[Least(RowsOf(w))].referrer_wallet) # member_refs[w]

OwnAncestor(m, start) ==
    \E k \in 1..(Cardinality(DOMAIN m) + 1) : Ancestor(m, start, k) = start

\* C10 (as claimed): resolve_referrer never returns the start itself, unless
\* the start is the fallback.
C10_NeverReturnsStart ==
    \A n \in 1..Len(output_csv) :
        output_csv[n].user # FALLBACK_ROOT =>
            output_csv[n].referal # output_csv[n].user

\* C10 (amended): resolve_referrer returns the start itself only when the
\* start is the fallback or lies on its own referrer chain.
C10_ReturnsStartOnlyOnOwnChain ==
    \A n \in 1..Len(output_csv) :
        output_csv[n].referal = output_csv[n].user =>
            \/ output_csv[n].user = FALLBACK_ROOT
            \/ OwnAncestor(member_refs, output_csv[n].user)

\* a start on a two-wallet cycle was returned as its own resolved referrer
C10_Witness ==
    \E n \in 1..Len(output_csv) :
        LET r == output_csv[n]
        IN /\ r.referal = r.user
           /\ r.user # FALLBACK_ROOT
           /\ Ancestor(member_refs, r.user, 1) # r.user
           /\ Ancestor(member_refs, r.user, 2) = r.user

\* canonical form of a cell: trimmed and case-folded
Canonical(cell) == lower(strip(cell))

\* canonical identifiers of the records of CSV_FILE
KnownCanonical ==
    {Canonical(csv_file[n].user_name) : n \in 1..Len(csv_file)} \ {EMPTY}

\* row numbers (the header is row 1) of the records with canonical identifier c
RowNumbersOf(c) == {n + 1 : n \in {k \in 1..Len(csv_file) : Canonical(csv_file[k].user_name) = c}}

\* list l holds the members of its own index set S in increasing order
IsAscendingListOf(l, S) ==
    /\ Len(l) = Cardinality(S)
    /\ SetOf(l) = S
    /\ \A h, k \in 1..Len(l) : h < k => l[h] < l[k]

\* the duplicate findings check_csv_duplicates.py prints for canonical identifier c
DuplicateFindings(c) == {w \in DOMAIN duplicates : lower(w) = c}

\* C5 (as claimed): k >= 2 records with one canonical (trimmed, case-folded)
\* identifier give exactly one duplicate finding that lists the rows of all k
\* records in input order; an identifier of a single record gives none.
C5_DuplicateCompleteness ==
    (script = "check_csv_duplicates" /\ apc \in {"check", "done"}) =>
        \A c \in KnownCanonical :
            IF Cardinality(RowNumbersOf(c)) >= 2
            THEN /\ Cardinality(DuplicateFindings(c)) = 1
                 /\ \A w \in DuplicateFindings(c) :
                        IsAscendingListOf(wallet_to_row[w], RowNumbersOf(c))
            ELSE DuplicateFindings(c) = {}

\* the dangling-referrer findings of the running script, as row numbers
DanglingRows ==
    IF script = "check_csv_duplicates"
    THEN [n \in 1..Len(missing) |-> missing[n].row]
    ELSE [n \in 1..Len(missing_sponsors) |-> missing_sponsors[n].row]

\* record n of CSV_FILE has a non-empty referrer that canonically equals no
\* identifier of the file and is not the record's own identifier
IsDangling(n) ==
    LET r == Canonical(csv_file[n].referrer_name)
    IN /\ r # EMPTY
       /\ r \notin KnownCanonical
       /\ r # Canonical(csv_file[n].user_name)

\* C6 (as claimed): a record (with an identifier) gets exactly one dangling
\* finding when its referrer is non-empty, canonically unknown and not itself,
\* and none when the referrer is empty or canonically known.
C6_DanglingDetection ==
    (script \in {"check_csv_duplicates", "find_missing_sponsors"} /\ apc = "done") =>
        \A n \in 1..Len(csv_file) :
            Canonical(csv_file[n].user_name) # EMPTY =>
                Count(DanglingRows, n + 1) = (IF IsDangling(n) THEN 1 ELSE 0)

\* C8 (as claimed): a record whose identifier is empty after trimming adds no
\* known identifier and gets no duplicate finding and no dangling finding.
C8_EmptyIdentifierSkipped ==
    (script \in Scripts /\ apc = "done") =>
        /\ EMPTY \notin wallet_set \cup all_wallets \cup DOMAIN duplicates
        /\ \A n \in 1..Len(csv_file) :
            strip(csv_file[n].user_name) = EMPTY =>
                /\ Count(DanglingRows, n + 1) = 0
                /\ \A w \in DOMAIN wallet_to_row :
                        Count(wallet_to_row[w], n + 1) = 0

\* the k-th node after x on the referrer chain of the ReferralMap (EMPTY once
\* the chain has ended)
RECURSIVE NodeAfter(_, _)
NodeAfter(x, k) ==
    IF k = 0 THEN x
    ELSE LET y == NodeAfter(x, k - 1)
         IN IF y = EMPTY THEN EMPTY ELSE next_node(referral_map, self_is_root, y)

MapSize == Cardinality(DOMAIN referral_map)

\* the member sets of the cycles of the ReferralMap
MapCycles ==
    {{NodeAfter(x, k) : k \in 0..MapSize} :
        x \in {y \in DOMAIN referral_map : \E k \in 1..MapSize : NodeAfter(y, k) = y}}

MissingWithoutExemption(user_name, referrer_name, wset) ==
    /\ referrer_name # EMPTY
    /\ referrer_name \notin wset

\* row numbers, among the rows the second loop has consumed, that the test
\* without the exemption reports
RowsWithoutExemption ==
    {k + 1 : k \in {h \in 1..scan :
        MissingWithoutExemption(strip(csv_file[h].user_name),
                                strip(csv_file[h].referrer_name), wallet_set)}}

\* C11: in check_csv_duplicates.py the findings in missing are, in input order,
\* exactly the rows the test without the self-referring exemption reports, with
\* the same user and referrer; a consumed record with a non-empty identifier
\* that names itself finds its referrer in wallet_set.
C11_ExemptionChangesNothing ==
    (script = "check_csv_duplicates" /\ apc \in {"check", "done"}) =>
        /\ IsAscendingListOf([n \in 1..Len(missing) |-> missing[n].row],
                             RowsWithoutExemption)
        /\ \A n \in 1..Len(missing) :
            /\ missing[n].user = strip(csv_file[missing[n].row - 1].user_name)
            /\ missing[n].referrer = strip(csv_file[missing[n].row - 1].referrer_name)
        /\ \A h \in 1..scan :
            (strip(csv_file[h].user_name) # EMPTY
             /\ strip(csv_file[h].referrer_name) = strip(csv_file[h].user_name))
                => strip(csv_file[h].referrer_name) \in wallet_set

\* the second loop consumed a record that names itself (the exemption applied)
\* and reported another record as missing
C11_Witness ==
    /\ script = "check_csv_duplicates"
    /\ apc = "done"
    /\ \E h \in 1..Len(csv_file) :
        /\ strip(csv_file[h].user_name) # EMPTY
        /\ strip(csv_file[h].referrer_name) = strip(csv_file[h].user_name)
    /\ Len(missing) >= 1

====
